---- MODULE Spec2Model ----
(***************************************************************************)
(* Model of the particle compute orchestration of src/src/main.rs:         *)
(* the per-frame sequence extract -> prepare_bind_group ->                 *)
(* ParticleNode::update -> ParticleNode::run, the asynchronous pipeline    *)
(* cache and the asynchronous resolution of the storage buffer.            *)
(***************************************************************************)
EXTENDS Naturals, Sequences, FiniteSets

\* Number of frames the model executes.
MaxFrames == 4

\* const SHADER_COMPUTE_PATH
SHADER_COMPUTE_PATH == "compute.wgsl"

\* const DISPLAY_FACTOR, SIZE, WORKGROUP_SIZE (u32; `/` is integer division)
DISPLAY_FACTOR == 4
SIZE == <<1280 \div DISPLAY_FACTOR, 720 \div DISPLAY_FACTOR>>
WORKGROUP_SIZE == 8

\* let particle_count = 1000 in setup; it sizes the storage buffer and is
\* uploaded in ParticleConfig.
particle_count == 1000

\* Compiler diagnostics a CachedPipelineState::Err(err) may carry (two stand for all).
ErrMsgs == {"ProcessShaderError", "CreateShaderModule"}

\* CachedPipelineState as seen through get_compute_pipeline_state.
Queued == [tag |-> "Queued", err |-> ""]
Creating == [tag |-> "Creating", err |-> ""]
Ok == [tag |-> "Ok", err |-> ""]
Err(m) == [tag |-> "Err", err |-> m]

\* enum ParticleState { Loading, Init, Update(usize) }
Loading == [tag |-> "Loading", phase |-> 0]
InitState == [tag |-> "Init", phase |-> 0]
Update(n) == [tag |-> "Update", phase |-> n]
NoState == [tag |-> "None", phase |-> 0]

\* The record kept for each frame of what the frame did.
EmptyFrame ==
  [binder |-> "none", before |-> NoState, polled |-> "none", after |-> NoState,
   run |-> "no", pass |-> FALSE, bg |-> 0, pipeline |-> "none", prog |-> "none",
   passes |-> 0, grid |-> <<0, 0, 0>>, cmds |-> <<>>]

VARIABLES
  frame,          \* number of the frame being executed
  stage,          \* next step of the frame: extract, prepare, update, run
  extracted,      \* the host resources are visible in the render world
  initStatus,     \* CachedPipelineState of pipeline.init_pipeline
  updateStatus,   \* CachedPipelineState of pipeline.update_pipeline
  bufferResolved, \* render_assets.get(storage_buffer_id) is Some
  bindGroups,     \* ParticleBindGroups resource: 0 absent, else the id of the bind group
  constructions,  \* number of create_bind_group calls made so far
  state,          \* ParticleNode.state
  panics,         \* the functions that have panicked
  diags,          \* the panic messages surfaced, each a sequence of parts
  abortPending,   \* a system panicked and the schedule is still finishing the frame
  halted,         \* the process has terminated
  log             \* per frame, what the frame did

vars == <<frame, stage, extracted, initStatus, updateStatus, bufferResolved,
          bindGroups, constructions, state, panics, diags, abortPending, halted, log>>

envVars == <<initStatus, updateStatus, bufferResolved>>

Init ==
  /\ frame = 1
  /\ stage = "extract"
  /\ extracted = FALSE
  /\ initStatus = Queued
  /\ updateStatus = Queued
  /\ bufferResolved = FALSE
  /\ bindGroups = 0
  /\ constructions = 0
  /\ state = Loading
  /\ panics = {}
  /\ diags = {}
  /\ abortPending = FALSE
  /\ halted = FALSE
  /\ log = [f \in 1..MaxFrames |-> EmptyFrame]

\* ---------------------------------------------------------------- messages

\* render_assets.get(..).unwrap() in prepare_bind_group when the buffer is unresolved.
UnwrapNoneMsg == <<"called Option::unwrap() on a None value">>

\* panic!("Initializing assets/{SHADER_COMPUTE_PATH}:\n{err}")
CompileFailMsg(err) == <<"Initializing assets/", SHADER_COMPUTE_PATH, ":\n", err>>

\* world.resource::<ParticleBindGroups>() when the resource was never inserted.
MissingResourceMsg == <<"Requested resource does not exist: ", "ParticleBindGroups">>

\* get_compute_pipeline(id).unwrap() in run when the pipeline p is not compiled.
PipelineUnwrapMsg(p) == <<"called Option::unwrap() on a None value", "get_compute_pipeline", p>>

\* unreachable!()
UnreachableMsg == <<"internal error: entered unreachable code">>

Cites(msg, part) == \E i \in DOMAIN msg : msg[i] = part

\* ------------------------------------------------------------ environment

\* The pipeline cache compiles out of band: Queued, Creating, then Ok or Err.
NextStatus(s) ==
  CASE s.tag = "Queued" -> {Creating}
    [] s.tag = "Creating" -> {Ok} \cup {Err(m) : m \in ErrMsgs}
    [] OTHER -> {}

CompileInit ==
  /\ ~halted
  /\ \E s \in NextStatus(initStatus) : initStatus' = s
  /\ UNCHANGED <<frame, stage, extracted, updateStatus, bufferResolved, bindGroups,
                 constructions, state, panics, diags, abortPending, halted, log>>

CompileUpdate ==
  /\ ~halted
  /\ \E s \in NextStatus(updateStatus) : updateStatus' = s
  /\ UNCHANGED <<frame, stage, extracted, initStatus, bufferResolved, bindGroups,
                 constructions, state, panics, diags, abortPending, halted, log>>

\* The storage buffer asset is prepared into RenderAssets<GpuShaderStorageBuffer>.
ResolveBuffer ==
  /\ ~halted
  /\ ~bufferResolved
  /\ bufferResolved' = TRUE
  /\ UNCHANGED <<frame, stage, extracted, initStatus, updateStatus, bindGroups,
                 constructions, state, panics, diags, abortPending, halted, log>>

\* ------------------------------------------------------------------ frame

\* Faulty variant of StageAfter: the node's run is called before its update.
StageAfter_RunFirst(s) ==
  CASE s = "extract" -> "prepare"
    [] s = "prepare" -> "run"
    [] s = "run" -> "update"
    [] OTHER -> "extract"

\* The order of a frame's steps: extraction, then the Prepare set (the binder),
\* then the render graph, which calls the node's update and then its run.
StageAfter(s) ==
  CASE s = "extract" -> "prepare"
    [] s = "prepare" -> "update"
    [] s = "update" -> "run"
    [] OTHER -> "extract"

\* The step taken from stage s is the last of its frame.
EndsFrame(s) == StageAfter(s) = "extract"

\* ExtractResourcePlugin: the host resources are copied into the render world.
Extract ==
  /\ ~halted
  /\ stage = "extract"
  /\ frame <= MaxFrames
  /\ extracted' = TRUE
  /\ stage' = StageAfter(stage)
  /\ UNCHANGED <<frame, envVars, bindGroups, constructions, state, panics, diags,
                 abortPending, halted, log>>

\* What prepare_bind_group does given whether render_assets.get(..) is Some:
\* unwrap the buffer, create the bind group, insert the resource.
BindOutcome(resolved, built, current) ==
  IF resolved
    THEN [panic |-> FALSE, constructions |-> built + 1, bindGroups |-> built + 1,
          binder |-> "built"]
    ELSE [panic |-> TRUE, constructions |-> built, bindGroups |-> current,
          binder |-> "unresolved"]

\* fn prepare_bind_group, run every frame in RenderSet::Prepare.  When it
\* panics the schedule either unwinds at once or finishes the frame's remaining
\* systems before the panic is resumed.
PrepareBindGroup ==
  /\ ~halted
  /\ stage = "prepare"
  /\ LET o == BindOutcome(bufferResolved, constructions, bindGroups) IN
       /\ constructions' = o.constructions
       /\ bindGroups' = o.bindGroups
       /\ log' = [log EXCEPT ![frame].binder = o.binder]
       /\ IF o.panic
            THEN /\ panics' = panics \cup {"prepare_bind_group"}
                 /\ diags' = diags \cup {UnwrapNoneMsg}
                 /\ \E now \in BOOLEAN : /\ halted' = now
                                         /\ abortPending' = ~now
            ELSE UNCHANGED <<panics, diags, halted, abortPending>>
  /\ stage' = StageAfter(stage)
  /\ UNCHANGED <<frame, extracted, envVars, state>>

\* What one arm of the match in ParticleNode::update yields: the state it
\* leaves, the status it polled, and the panic it raises, if any.
Yield(st, polled) == [state |-> st, polled |-> polled, panic |-> FALSE, msg |-> <<>>]
Abort(st, polled, msg) == [state |-> st, polled |-> polled, panic |-> TRUE, msg |-> msg]

\* Faulty variant of LoadingArm: falls through to Update when both pipelines are
\* already compiled.
LoadingArm_SkipInit(st, initS, updS) ==
  IF initS.tag = "Ok" /\ updS.tag = "Ok" THEN Yield(Update(1), initS.tag)
  ELSE IF initS.tag = "Ok" THEN Yield(InitState, initS.tag)
  ELSE IF initS.tag = "Err" THEN Abort(st, initS.tag, CompileFailMsg(initS.err))
  ELSE Yield(st, initS.tag)

\* Faulty variant of LoadingArm: a compile error is treated like a pending compile.
LoadingArm_IgnoreErr(st, initS, updS) ==
  IF initS.tag = "Ok" THEN Yield(InitState, initS.tag) ELSE Yield(st, initS.tag)

\* Faulty variant of LoadingArm: any status but Queued and Err lets the node
\* leave Loading.
LoadingArm_Eager(st, initS, updS) ==
  IF initS.tag = "Err" THEN Abort(st, initS.tag, CompileFailMsg(initS.err))
  ELSE IF initS.tag # "Queued" THEN Yield(InitState, initS.tag)
  ELSE Yield(st, initS.tag)

\* ParticleState::Loading => match get_compute_pipeline_state(init_pipeline)
LoadingArm(st, initS, updS) ==
  IF initS.tag = "Ok" THEN Yield(InitState, initS.tag)
  ELSE IF initS.tag = "Err" THEN Abort(st, initS.tag, CompileFailMsg(initS.err))
  ELSE Yield(st, initS.tag)

\* Faulty variant of InitArm: any status but Queued lets the node leave Init.
InitArm_Eager(st, initS, updS) ==
  IF updS.tag # "Queued" THEN Yield(Update(1), updS.tag) ELSE Yield(st, updS.tag)

\* Faulty variant of InitArm: the node polls the init pipeline again and stays in Init.
InitArm_Stuck(st, initS, updS) == Yield(st, initS.tag)

\* ParticleState::Init => if let Ok(_) = get_compute_pipeline_state(update_pipeline)
InitArm(st, initS, updS) ==
  IF updS.tag = "Ok" THEN Yield(Update(1), updS.tag) ELSE Yield(st, updS.tag)

\* Faulty variant of UpdateArm: Update(0) starts over from Init.
UpdateArm_Regress(st, initS, updS) ==
  IF st.phase = 0 THEN Yield(InitState, "none")
  ELSE IF st.phase = 1 THEN Yield(Update(0), "none")
  ELSE Abort(st, "none", UnreachableMsg)

\* Faulty variant of UpdateArm: the Update(1) arm assigns Update(1) again.
UpdateArm_NoFlip(st, initS, updS) ==
  IF st.phase = 0 THEN Yield(Update(1), "none")
  ELSE IF st.phase = 1 THEN Yield(Update(1), "none")
  ELSE Abort(st, "none", UnreachableMsg)

\* Faulty variant of UpdateArm: the phase counts up instead of flipping.
UpdateArm_Count(st, initS, updS) ==
  IF st.phase = 0 THEN Yield(Update(1), "none")
  ELSE IF st.phase = 1 THEN Yield(Update(2), "none")
  ELSE Abort(st, "none", UnreachableMsg)

\* ParticleState::Update(0), Update(1) and Update(_) => unreachable!()
UpdateArm(st, initS, updS) ==
  IF st.phase = 0 THEN Yield(Update(1), "none")
  ELSE IF st.phase = 1 THEN Yield(Update(0), "none")
  ELSE Abort(st, "none", UnreachableMsg)

\* The match of ParticleNode::update on self.state.
Transition(st, initS, updS) ==
  CASE st.tag = "Loading" -> LoadingArm(st, initS, updS)
    [] st.tag = "Init" -> InitArm(st, initS, updS)
    [] OTHER -> UpdateArm(st, initS, updS)

\* fn ParticleNode::update.  A panic unwinds out of the render system, so run
\* is not called and the process terminates.
NodeUpdate ==
  /\ ~halted
  /\ stage = "update"
  /\ LET t == Transition(state, initStatus, updateStatus) IN
       /\ state' = t.state
       /\ log' = [log EXCEPT ![frame].before = state,
                             ![frame].polled = t.polled,
                             ![frame].after = t.state]
       /\ IF t.panic
            THEN /\ panics' = panics \cup {"update"}
                 /\ diags' = diags \cup {t.msg}
            ELSE UNCHANGED <<panics, diags>>
       /\ halted' = (t.panic \/ (abortPending /\ EndsFrame(stage)))
  /\ abortPending' = (abortPending /\ ~EndsFrame(stage))
  /\ frame' = IF EndsFrame(stage) THEN frame + 1 ELSE frame
  /\ stage' = StageAfter(stage)
  /\ UNCHANGED <<extracted, envVars, bindGroups, constructions>>

\* Faulty variant of DispatchGrid: the counts are rounded up instead of down.
DispatchGrid_CeilDiv ==
  <<(SIZE[1] + WORKGROUP_SIZE - 1) \div WORKGROUP_SIZE,
    (SIZE[2] + WORKGROUP_SIZE - 1) \div WORKGROUP_SIZE, 1>>

\* The arguments of dispatch_workgroups:
\* (SIZE.0 / WORKGROUP_SIZE, SIZE.1 / WORKGROUP_SIZE, 1)
DispatchGrid == <<SIZE[1] \div WORKGROUP_SIZE, SIZE[2] \div WORKGROUP_SIZE, 1>>

\* The commands recorded in the compute pass.
NoGrid == <<0, 0, 0>>
SetBindGroup(i, bg) ==
  [op |-> "set_bind_group", index |-> i, bg |-> bg, pipeline |-> "none", grid |-> NoGrid]
SetPipeline(p) ==
  [op |-> "set_pipeline", index |-> 0, bg |-> 0, pipeline |-> p, grid |-> NoGrid]
DispatchWorkgroups(g) ==
  [op |-> "dispatch_workgroups", index |-> 0, bg |-> 0, pipeline |-> "none", grid |-> g]

\* Faulty variant of Dispatch: the bind group is not bound before the dispatch.
Dispatch_NoBind(bg, p) ==
  [run |-> "ok", bg |-> bg, pipeline |-> p, prog |-> p, msg |-> <<>>,
   grid |-> DispatchGrid,
   cmds |-> <<SetPipeline(p), DispatchWorkgroups(DispatchGrid)>>]

\* What one arm of the match in ParticleNode::run yields.
NoDispatch ==
  [run |-> "ok", bg |-> 0, pipeline |-> "none", prog |-> "none", msg |-> <<>>,
   grid |-> NoGrid, cmds |-> <<>>]
RunPanic(msg) ==
  [run |-> "panic", bg |-> 0, pipeline |-> "none", prog |-> "none", msg |-> msg,
   grid |-> NoGrid, cmds |-> <<>>]
Dispatch(bg, p) ==
  [run |-> "ok", bg |-> bg, pipeline |-> p, prog |-> p, msg |-> <<>>,
   grid |-> DispatchGrid,
   cmds |-> <<SetBindGroup(0, bg), SetPipeline(p), DispatchWorkgroups(DispatchGrid)>>]

\* Faulty variant of RunLoadingArm: the init program is dispatched while Loading.
RunLoadingArm_Dispatch(bg, initS, updS) ==
  IF bg = 0 THEN RunPanic(MissingResourceMsg)
  ELSE IF initS.tag # "Ok" THEN RunPanic(PipelineUnwrapMsg("init"))
  ELSE Dispatch(bg, "init")

\* ParticleState::Loading => println only
RunLoadingArm(bg, initS, updS) == NoDispatch

\* Faulty variant of RunInitArm: the bind group is taken as an optional resource and
\* the dispatch is issued whether or not it is present.
RunInitArm_NoLookup(bg, initS, updS) ==
  IF initS.tag # "Ok" THEN RunPanic(PipelineUnwrapMsg("init"))
  ELSE Dispatch(bg, "init")

\* ParticleState::Init => world.resource::<ParticleBindGroups>(),
\* get_compute_pipeline(init_pipeline).unwrap(), set_bind_group, set_pipeline,
\* dispatch_workgroups
RunInitArm(bg, initS, updS) ==
  IF bg = 0 THEN RunPanic(MissingResourceMsg)
  ELSE IF initS.tag # "Ok" THEN RunPanic(PipelineUnwrapMsg("init"))
  ELSE Dispatch(bg, "init")

\* ParticleState::Update(index) => the same with update_pipeline
RunUpdateArm(bg, initS, updS) ==
  IF bg = 0 THEN RunPanic(MissingResourceMsg)
  ELSE IF updS.tag # "Ok" THEN RunPanic(PipelineUnwrapMsg("update"))
  ELSE Dispatch(bg, "update")

\* The match of ParticleNode::run on self.state.
RunOutcome(st, bg, initS, updS) ==
  CASE st.tag = "Loading" -> RunLoadingArm(bg, initS, updS)
    [] st.tag = "Init" -> RunInitArm(bg, initS, updS)
    [] OTHER -> RunUpdateArm(bg, initS, updS)

\* Faulty variant of NodeRun: run moves the node on to Update once it has
\* dispatched init and the update pipeline is compiled.
NodeRun_Advances ==
  /\ ~halted
  /\ stage = "run"
  /\ LET o == RunOutcome(state, bindGroups, initStatus, updateStatus) IN
       /\ log' = [log EXCEPT ![frame].run = o.run,
                             ![frame].pass = TRUE,
                             ![frame].bg = o.bg,
                             ![frame].pipeline = o.pipeline,
                             ![frame].prog = o.prog,
                             ![frame].passes = @ + 1,
                             ![frame].grid = o.grid,
                             ![frame].cmds = o.cmds]
       /\ IF o.run = "panic"
            THEN /\ panics' = panics \cup {"run"}
                 /\ diags' = diags \cup {o.msg}
            ELSE UNCHANGED <<panics, diags>>
       /\ halted' = (o.run = "panic" \/ (abortPending /\ EndsFrame(stage)))
  /\ abortPending' = (abortPending /\ ~EndsFrame(stage))
  /\ frame' = IF EndsFrame(stage) THEN frame + 1 ELSE frame
  /\ stage' = StageAfter(stage)
  /\ state' = IF state = InitState /\ updateStatus.tag = "Ok" THEN Update(1) ELSE state
  /\ UNCHANGED <<extracted, envVars, bindGroups, constructions>>

\* fn ParticleNode::run: begins the compute pass, then acts on the state.  A
\* panic unwinds out of the render system and terminates the process; a panic
\* raised earlier in the frame terminates it when the frame ends.
NodeRun ==
  /\ ~halted
  /\ stage = "run"
  /\ LET o == RunOutcome(state, bindGroups, initStatus, updateStatus) IN
       /\ log' = [log EXCEPT ![frame].run = o.run,
                             ![frame].pass = TRUE,
                             ![frame].bg = o.bg,
                             ![frame].pipeline = o.pipeline,
                             ![frame].prog = o.prog,
                             ![frame].passes = @ + 1,
                             ![frame].grid = o.grid,
                             ![frame].cmds = o.cmds]
       /\ IF o.run = "panic"
            THEN /\ panics' = panics \cup {"run"}
                 /\ diags' = diags \cup {o.msg}
            ELSE UNCHANGED <<panics, diags>>
       /\ halted' = (o.run = "panic" \/ (abortPending /\ EndsFrame(stage)))
  /\ abortPending' = (abortPending /\ ~EndsFrame(stage))
  /\ frame' = IF EndsFrame(stage) THEN frame + 1 ELSE frame
  /\ stage' = StageAfter(stage)
  /\ UNCHANGED <<extracted, envVars, bindGroups, constructions, state>>

Next ==
  \/ CompileInit
  \/ CompileUpdate
  \/ ResolveBuffer
  \/ Extract
  \/ PrepareBindGroup
  \/ NodeUpdate
  \/ NodeRun

Spec == Init /\ [][Next]_vars

\* The frame loop keeps running: each step of a frame that can be taken is
\* taken.  Nothing is assumed of the pipeline cache or of the asset server.
FairSpec ==
  /\ Spec
  /\ WF_vars(Extract)
  /\ WF_vars(PrepareBindGroup)
  /\ WF_vars(NodeUpdate)
  /\ WF_vars(NodeRun)

\* ----------------------------------------------------------------- claims

Frames == 1..MaxFrames

\* C1: the update program is dispatched in a frame only if the init program
\* was dispatched in a strictly earlier frame.
C1_InitBeforeUpdate ==
  \A f \in Frames :
    log[f].prog = "update" => \E g \in Frames : g < f /\ log[g].prog = "init"

\* A frame has dispatched the update program.
C1_Witness == \E f \in Frames : log[f].prog = "update"

\* C2: in every frame in which a program is dispatched, the binder has built
\* and installed ParticleBindGroups in that frame or before, and the dispatch
\* bound it.
C2_DispatchHasBindGroup ==
  \A f \in Frames :
    log[f].prog # "none" =>
      /\ bindGroups # 0
      /\ log[f].bg # 0
      /\ \E g \in Frames : g <= f /\ log[g].binder = "built"

\* The init program was dispatched with the installed bind group, and a later
\* frame dispatched the update program.
C2_Witness ==
  \E f, g \in Frames :
    /\ f < g
    /\ log[f].prog = "init" /\ log[f].bg # 0
    /\ log[g].prog = "update" /\ log[g].bg # 0

\* C3: the binder constructs the bind group at most once per session, however
\* many frames invoke it with a resolved buffer.
C3_AtMostOneConstruction == constructions <= 1

\* C4: once a frame has polled a pipeline whose compile status is Err, no
\* program is dispatched in that frame or any later one, and a diagnostic
\* citing the shader path has been surfaced.
C4_FailedStopsDispatch ==
  \A f \in Frames :
    log[f].polled = "Err" =>
      /\ \A g \in Frames : g >= f => log[g].prog = "none"
      /\ \E d \in diags : Cites(d, SHADER_COMPUTE_PATH)

\* C5: a frame in which the binder finds the storage buffer unresolved builds
\* nothing and does not abort; the next frame runs the binder again.
C5_BinderDefers ==
  \A f \in Frames :
    log[f].binder = "unresolved" =>
      /\ "prepare_bind_group" \notin panics
      /\ ~halted

\* Rank of a state along Loading -> Init -> Update.
Rank(st) == CASE st.tag = "Loading" -> 0 [] st.tag = "Init" -> 1 [] OTHER -> 2

\* C6: no step moves the state backwards along Loading -> Init -> Update.
C6_StateOnlyForward == [][Rank(state') >= Rank(state)]_vars

\* The state has gone through Loading, Init, Update(1) and reached Update(0).
C6_Witness == state = Update(0) /\ \E f \in Frames : log[f].before = Loading

\* The program the state selects.
Selected(st) ==
  CASE st.tag = "Init" -> "init" [] st.tag = "Update" -> "update" [] OTHER -> "none"

\* C7: in every frame whose run returns, the program dispatched is the one
\* selected by the state that this frame's update computed: the frame that
\* observes the init pipeline Ok while Loading dispatches init, the frame that
\* observes the update pipeline Ok while in Init dispatches update; a frame
\* whose run does not return dispatches nothing.
C7_TransitionPrecedesDispatch ==
  \A f \in Frames :
    /\ log[f].run = "ok" => log[f].prog = Selected(log[f].after)
    /\ log[f].run # "ok" => log[f].prog = "none"
    /\ (log[f].run = "ok" /\ log[f].before = Loading /\ log[f].polled = "Ok")
         => log[f].prog = "init"
    /\ (log[f].run = "ok" /\ log[f].before = InitState /\ log[f].polled = "Ok")
         => log[f].prog = "update"

\* One frame went from Loading to Init and dispatched init, a later one went
\* from Init to Update and dispatched update.
C7_Witness ==
  \E f, g \in Frames :
    /\ f < g
    /\ log[f].before = Loading /\ log[f].polled = "Ok" /\ log[f].prog = "init"
    /\ log[g].before = InitState /\ log[g].polled = "Ok" /\ log[g].prog = "update"

\* The frame e is the one in which Update was entered.
EntersUpdate(e) == log[e].before = InitState /\ log[e].after.tag = "Update"

\* C8: from the frame that enters Update on, the phase is 1, 0, 1, 0, ... on
\* successive frames, and every such frame's run dispatches the update program.
C8_PingPong ==
  \A e \in Frames :
    EntersUpdate(e) =>
      \A f \in Frames :
        (f >= e /\ log[f].after # NoState) =>
          /\ log[f].after = Update((f - e + 1) % 2)
          /\ log[f].run # "no" =>
               /\ log[f].run = "ok"
               /\ log[f].pipeline = "update"
               /\ log[f].prog = "update"

\* Three successive frames in Update, with phases 1, 0, 1, each dispatching update.
C8_Witness ==
  \E e \in Frames :
    /\ EntersUpdate(e)
    /\ e + 2 \in Frames
    /\ log[e].after = Update(1) /\ log[e].prog = "update"
    /\ log[e + 1].after = Update(0) /\ log[e + 1].prog = "update"
    /\ log[e + 2].after = Update(1) /\ log[e + 2].prog = "update"

\* C9: a frame whose update polls the init pipeline as Err while Loading
\* panics with a message citing the shader path and the compiler message; run
\* is not called and nothing is dispatched in that frame or later.
C9_InitFailureAborts ==
  \A f \in Frames :
    (log[f].before = Loading /\ log[f].polled = "Err") =>
      /\ halted
      /\ "update" \in panics
      /\ initStatus.err \in ErrMsgs
      /\ \E d \in diags : Cites(d, SHADER_COMPUTE_PATH) /\ Cites(d, initStatus.err)
      /\ log[f].run = "no"
      /\ \A g \in Frames : g >= f => log[g].prog = "none"

\* A frame polled the init pipeline as Err while Loading.
C9_Witness ==
  \E f \in Frames : log[f].before = Loading /\ log[f].polled = "Err"

\* C10: a frame whose update polls the init pipeline as still compiling while
\* Loading leaves the state Loading, and its run begins the compute pass, binds
\* no pipeline and no bind group, and dispatches nothing.
C10_PendingStaysLoading ==
  \A f \in Frames :
    (log[f].before = Loading /\ log[f].polled \in {"Queued", "Creating"}) =>
      /\ log[f].after = Loading
      /\ log[f].run # "no" =>
           /\ log[f].run = "ok"
           /\ log[f].pass
           /\ log[f].pipeline = "none"
           /\ log[f].bg = 0
           /\ log[f].prog = "none"

\* A frame polled the init pipeline as still compiling and its run returned.
C10_Witness ==
  \E f \in Frames :
    /\ log[f].before = Loading /\ log[f].polled \in {"Queued", "Creating"}
    /\ log[f].run = "ok" /\ log[f].pass

\* C11: the constants give SIZE = (320, 180) and WORKGROUP_SIZE = 8, and every
\* dispatch, of init and of update, uses the grid (40, 22, 1): the display
\* size divided by the workgroup size with integer division.
C11_Grid2D ==
  /\ SIZE = <<320, 180>>
  /\ WORKGROUP_SIZE = 8
  /\ \A f \in Frames : log[f].prog # "none" => log[f].grid = <<40, 22, 1>>

\* An init dispatch and an update dispatch, each with the grid (40, 22, 1).
C11_Witness ==
  \E f, g \in Frames :
    /\ log[f].prog = "init" /\ log[f].grid = <<40, 22, 1>>
    /\ log[g].prog = "update" /\ log[g].grid = <<40, 22, 1>>

\* Ceiling of n / d.
CeilDiv(n, d) == (n + d - 1) \div d

\* The number of workgroups a grid schedules.
WorkgroupCount(g) == g[1] * g[2] * g[3]

\* C12: every dispatch schedules ceil(particle_count / WORKGROUP_SIZE)
\* workgroups, the 1D sizing policy.
C12_Grid1D ==
  \A f \in Frames :
    log[f].prog # "none" =>
      WorkgroupCount(log[f].grid) = CeilDiv(particle_count, WORKGROUP_SIZE)

\* C13: a frame that polls the update pipeline as anything but Ok while in
\* Init leaves the state Init and its run dispatches the init program with the
\* installed bind group; every frame whose state after update is Init and
\* whose run returns dispatches init.
C13_InitDispatchesEveryFrame ==
  \A f \in Frames :
    /\ (log[f].before = InitState /\ log[f].polled # "Ok") =>
         /\ log[f].after = InitState
         /\ log[f].run # "no" =>
              /\ log[f].run = "ok"
              /\ log[f].bg # 0
              /\ log[f].pipeline = "init"
              /\ log[f].prog = "init"
    /\ (log[f].after = InitState /\ log[f].run = "ok") => log[f].prog = "init"

\* Two successive frames spent in Init, the second polling the update pipeline
\* as still compiling, both dispatching init.
C13_Witness ==
  \E f \in Frames :
    /\ f + 1 \in Frames
    /\ log[f].after = InitState /\ log[f].prog = "init"
    /\ log[f + 1].before = InitState
    /\ log[f + 1].polled \in {"Queued", "Creating"}
    /\ log[f + 1].after = InitState /\ log[f + 1].prog = "init"

\* C14: whenever the state is Update(phase), phase is 0 or 1, and the
\* unreachable!() arm of update has never been executed.
C14_PhaseIsBit ==
  /\ state.tag = "Update" => state.phase \in {0, 1}
  /\ \A f \in Frames : log[f].after.tag = "Update" => log[f].after.phase \in {0, 1}
  /\ UnreachableMsg \notin diags

\* update has executed both the Update(1) arm and the Update(0) arm.
C14_Witness ==
  \E f, g \in Frames :
    /\ log[f].before = Update(1) /\ log[f].after = Update(0)
    /\ log[g].before = Update(0) /\ log[g].after = Update(1)

\* The bind group installed when frame f runs its node: the binder numbers
\* the bind groups it builds, and the latest one replaces the resource.
CurrentBindGroup(f) == Cardinality({g \in Frames : g <= f /\ log[g].binder = "built"})

\* The dispatch_workgroups commands among cmds.
Dispatches(cmds) == {i \in DOMAIN cmds : cmds[i].op = "dispatch_workgroups"}

\* C15: a frame whose run is called begins exactly one compute pass (no other
\* frame begins any) and records at most one dispatch in it; a dispatch is
\* preceded, in that pass, by set_bind_group(0, the bind group currently
\* installed) and set_pipeline(the pipeline of the current state), and a frame
\* without a dispatch records no command.
C15_OnePassOneDispatch ==
  \A f \in Frames :
    /\ log[f].passes = IF log[f].run = "no" THEN 0 ELSE 1
    /\ Cardinality(Dispatches(log[f].cmds)) <= 1
    /\ log[f].prog = "none" => log[f].cmds = <<>>
    /\ log[f].prog # "none" =>
         log[f].cmds = <<SetBindGroup(0, CurrentBindGroup(f)),
                         SetPipeline(Selected(log[f].after)),
                         DispatchWorkgroups(log[f].grid)>>

\* An init dispatch and a later update dispatch, each recorded in the one pass
\* of its frame after binding that frame's bind group.
C15_Witness ==
  \E f, g \in Frames :
    /\ f < g
    /\ log[f].prog = "init" /\ log[f].passes = 1 /\ Len(log[f].cmds) = 3
    /\ log[g].prog = "update" /\ log[g].passes = 1 /\ Len(log[g].cmds) = 3
    /\ log[g].cmds[1] = SetBindGroup(0, g)

\* C16: the node's state changes only in a step of ParticleNode::update, and
\* update is evaluated at most once in a frame: extraction, the binder, run
\* and the pipeline cache leave the state as it is.
C16_OnlyUpdateChangesState ==
  [][state' # state => (stage = "update" /\ log[frame].before = NoState)]_vars

\* update has changed the state, and the run of that frame, then the
\* extraction and the binder of the next frame, have been executed since.
C16_Witness ==
  \E f \in Frames :
    /\ log[f].before # log[f].after /\ log[f].after = state
    /\ log[f].run = "ok"
    /\ frame = f + 1 /\ stage = "update"
    /\ log[frame].binder = "built"

\* C17: with compile status never leaving Ok, the pipeline of every program
\* that run has dispatched is Ok, and no get_compute_pipeline(..).unwrap() of
\* run has panicked.
C17_PipelineReadyAtDispatch ==
  /\ \A f \in Frames :
       /\ log[f].prog = "init" => initStatus = Ok
       /\ log[f].prog = "update" => updateStatus = Ok
       /\ log[f].after = InitState /\ log[f].run # "no" => initStatus = Ok
       /\ log[f].after.tag = "Update" /\ log[f].run # "no" => updateStatus = Ok
  /\ \A p \in {"init", "update"} : PipelineUnwrapMsg(p) \notin diags

\* run has unwrapped the init pipeline in one frame and the update pipeline in
\* a later one, and has never panicked.
C17_Witness ==
  /\ "run" \notin panics
  /\ \E f, g \in Frames :
       /\ f < g
       /\ log[f].pipeline = "init" /\ log[g].pipeline = "update"

\* C18: one update moves the state by at most one stage, so no frame goes from
\* Loading to Update; the frame that enters Update follows a frame that was
\* spent in Init and dispatched init, also when both pipelines were already
\* compiled at the first poll.
C18_OneStagePerFrame ==
  /\ \A f \in Frames :
       /\ log[f].after # NoState => Rank(log[f].after) <= Rank(log[f].before) + 1
       /\ EntersUpdate(f) =>
            \E g \in Frames :
              g < f /\ log[g].after = InitState /\ log[g].prog = "init"
  /\ (stage = "run" /\ log[frame].before = Loading /\ log[frame].polled = "Ok")
       => state = InitState

\* The first poll found both pipelines compiled, and update has left the node in Init.
C18_Witness ==
  /\ frame = 1 /\ stage = "run"
  /\ log[1].before = Loading /\ log[1].polled = "Ok"
  /\ updateStatus = Ok
  /\ state = InitState

\* At least two calls of update are still to come in the frames the model executes.
TwoUpdatesLeft ==
  frame + 2 <= MaxFrames + (IF stage \in {"extract", "prepare", "update"} THEN 1 ELSE 0)

\* Both pipelines are compiled, the storage buffer is resolved and nothing has
\* panicked.
ReadyToRun ==
  /\ ~halted /\ panics = {}
  /\ bufferResolved
  /\ initStatus = Ok /\ updateStatus = Ok

\* C19: while frames keep being executed, once both pipelines are compiled and
\* the storage buffer is resolved (and two updates are still to come), the
\* node reaches Update; and every frame completed from the one that entered
\* Update on has dispatched the update program.
C19_EventuallyUpdate ==
  /\ (ReadyToRun /\ TwoUpdatesLeft) ~> (state.tag = "Update")
  /\ [](\A e, f \in Frames :
          (EntersUpdate(e) /\ e <= f /\ f < frame) => log[f].prog = "update")

\* All frames have been executed, Update was entered before the last of them,
\* and every frame since has dispatched update.
C19_Witness ==
  /\ frame = MaxFrames + 1 /\ ~halted
  /\ \E e \in Frames :
       /\ EntersUpdate(e) /\ e < MaxFrames
       /\ \A f \in Frames : f >= e => log[f].prog = "update"

====
